---- MODULE Spec2Model ----
(***************************************************************************)
(* Presence registry and snapshot broadcaster of src/app.py.               *)
(*                                                                         *)
(* The registry _presence is an insertion-ordered dict uid -> Presence,    *)
(* guarded by the single lock _lock.  POST /v1/hit requests call           *)
(* _update_presence; every subscriber of /sse/online runs event_stream,    *)
(* which calls _prune_and_snapshot once per tick.                          *)
(***************************************************************************)
EXTENDS Integers, Sequences, FiniteSets

\* ---------------------------------------------------------------- constants

LAST_SEEN_TTL_SECONDS == 60
IDLE_THRESHOLD_SECONDS == 60
SSE_BROADCAST_INTERVAL_SECONDS == 2

\* ------------------------------------------------------------------- bounds

\* number of distinct identifiers clients send (uids are 1..MaxUids, compared
\* as the strings str(uid) are compared)
MaxUids == 2
\* number of POST /v1/hit requests served
MaxHits == 2
\* wall-clock second at which the process starts
ClockStart == 1000

\* the server's worker threads: at most two contexts run handler code at
\* the same time, the others wait to be served or sleep
Workers == {"w1", "w2"}

Uids == 1..MaxUids
Requests == 1..MaxHits
\* the two /sse/online subscribers, numbered after the requests
Subs == {MaxHits + 1, MaxHits + 2}

\* The instants at which the wall clock is read, as offsets from ClockStart.
\* A run of the server reads the clock at the instants of one of two
\* schedules: one around the TTL boundary, one 30 and 50 seconds after a
\* heartbeat.
BoundaryOffsets ==
    {0, LAST_SEEN_TTL_SECONDS - 1, LAST_SEEN_TTL_SECONDS,
     LAST_SEEN_TTL_SECONDS + 1}
ExampleOffsets == {100, 130, 150}
Schedules == {BoundaryOffsets, ExampleOffsets}
ClockValues == {ClockStart + d : d \in UNION Schedules}
\* the instants that may follow instant t
Later(t) ==
    {ClockStart + d : d \in UNION {S \in Schedules : t - ClockStart \in S}}
        \cap {u \in ClockValues : u > t}

\* Optional[int]: None is the empty sequence, an integer v is <<v>>
None == <<>>
Some(v) == <<v>>
NoHolder == 0

\* JSON values a client may send as payload["last_activity"]
RawActivities ==
    {[kind |-> "absent"], [kind |-> "badstr"]}
    \cup {[kind |-> k, val |-> v] :
            k \in {"int", "numstr"}, v \in {ClockStart}}
\* JSON values a client may send as payload["uid"]: a uid, or nothing / ""
NoUid == 0
\* payload.get("last_activity") has not been read
NoRaw == [kind |-> "unread"]
RawUids == Uids \cup {NoUid}

VARIABLES
    clock,          \* time.time(), in whole seconds
    presence,       \* _presence: sequence of Presence entries, insertion order
    lock,           \* _lock: the context that holds it, or NoHolder
    applied,        \* history: per uid, the arguments of the last heartbeat that
                    \* _update_presence applied (None if there was none)
    hpc,            \* hit: position of each request
    uid,            \* hit: uid of each request
    last_activity_raw,  \* hit: last_activity_raw, or NoRaw before line 118
    timestamp,      \* hit: timestamp = _now()
    last_activity,  \* hit: parsed last_activity, or None
    response,       \* hit: the body and status returned, or None
    spc,            \* event_stream: position of each subscriber
    now_ts,         \* event_stream: now_ts = _now()
    items,          \* _prune_and_snapshot: list(_presence.items())
    stale,          \* _prune_and_snapshot: stale
    active,         \* _prune_and_snapshot: active
    idle,           \* _prune_and_snapshot: idle
    wake,           \* event_stream: instant at which sleep() returns
    failed,         \* event_stream: the loop is in its except branch
    event,          \* event_stream: the payload yielded and not yet written
                    \* downstream, or None
    connected,      \* the downstream connection of each subscriber is open
    errors,         \* history: number of error-flagged events each loop yielded
    quiet           \* history: the snapshot of the loop has returned and no
                    \* heartbeat has been applied since

hitVars == <<hpc, uid, last_activity_raw, timestamp, last_activity, response>>
snapVars == <<now_ts, items, stale, active, idle>>
streamVars == <<failed, event, connected, errors>>
subVars == <<spc, snapVars, wake, streamVars, quiet>>

vars == <<clock, presence, lock, applied, hitVars, subVars>>

\* the contexts that are running a handler between two suspension points
Busy ==
    {r \in Requests : hpc[r] \in {"call", "locked", "done", "rejected"}}
    \cup {s \in Subs : spc[s] \in {"call", "scanned", "evicted", "returned",
                                   "yielded", "except"}}

\* a worker thread is free to run one more context
WorkerFree == Cardinality(Busy) < Cardinality(Workers)

\* ------------------------------------------------------------ dict helpers

\* class Presence
Presence(u, seen, activity) ==
    [uid |-> u, last_seen |-> seen, last_activity |-> activity]

\* the keys of a dict, as a set
Keys(d) == {d[i].uid : i \in 1..Len(d)}

\* d.get(u): the entry of key u (u is a key of d)
Get(d, u) == CHOOSE e \in {d[i] : i \in 1..Len(d)} : e.uid = u

\* faulty variant of SetItem: the write also drops the entries that are older
\* than the TTL at the time of the written entry
SetItemEvict(d, e) ==
    LET kept == SelectSeq(d, LAMBDA x : x.last_seen >= e.last_seen - LAST_SEEN_TTL_SECONDS \/ x.uid = e.uid)
    IN  IF e.uid \in Keys(kept)
        THEN [i \in 1..Len(kept) |-> IF kept[i].uid = e.uid THEN e ELSE kept[i]]
        ELSE Append(kept, e)

\* d[u] = e: an existing key keeps its position, a new key goes last
SetItem(d, e) ==
    IF e.uid \in Keys(d)
    THEN [i \in 1..Len(d) |-> IF d[i].uid = e.uid THEN e ELSE d[i]]
    ELSE Append(d, e)

\* d.pop(u, None)
Pop(d, u) == SelectSeq(d, LAMBDA e : e.uid # u)

\* list.sort() of a list of uids: insertion sort
RECURSIVE InsertSorted(_, _)
InsertSorted(s, x) ==
    IF s = <<>> THEN <<x>>
    ELSE IF x < Head(s) THEN <<x>> \o s
    ELSE <<Head(s)>> \o InsertSorted(Tail(s), x)

\* faulty variant of Sort: the list is returned in scan order
SortNone(s) == s

RECURSIVE Sort(_)
Sort(s) == IF s = <<>> THEN <<>> ELSE InsertSorted(Sort(Tail(s)), Head(s))

Range(s) == {s[i] : i \in 1..Len(s)}

\* ----------------------------------------------------------------- _now()

\* the readings of the clock that may follow the reading t: a later instant
\* of the schedule; after the last instant of the schedule time goes on but
\* the reading stays at that instant
Elapse(t) == IF Later(t) = {} THEN {t} ELSE Later(t)

\* the sleep() of subscriber s returns when the clock goes from c to t
Woken(s, c, t) == spc[s] = "sleep" /\ (wake[s] <= t \/ t = c)

\* the wall clock moves forward; a sleep() whose interval has elapsed returns
\* and its loop is back at line 149 (event_stream, line 162)
Tick ==
    /\ \E t \in Elapse(clock) :
        /\ clock' = t
        /\ spc' = [s \in Subs |-> IF Woken(s, clock, t) THEN "tick" ELSE spc[s]]
        /\ wake' = [s \in Subs |-> IF Woken(s, clock, t) THEN 0 ELSE wake[s]]
    /\ UNCHANGED <<presence, lock, applied, hitVars, snapVars, streamVars, quiet>>

\* ------------------------------------------------------------- POST /v1/hit

\* faulty variant of ParseInt: a value that is no integer is read as 0
ParseIntLenient(raw) ==
    IF raw.kind \in {"int", "numstr"} THEN Some(raw.val) ELSE Some(0)

\* int(last_activity_raw): the integer, or None for TypeError / ValueError
ParseInt(raw) ==
    IF raw.kind \in {"int", "numstr"} THEN Some(raw.val) ELSE None

\* the body and the status of a response of hit (lines 116, 126, 130)
Reply(ok, error, status) == Some([ok |-> ok, error |-> error, status |-> status])

\* hit, lines 112-128: read the payload, validate it, read the clock.
\* Requests are numbered in the order in which they arrive.
HitReceive(r) ==
    /\ hpc[r] = "start"
    /\ r > 1 => hpc[r - 1] # "start"
    /\ WorkerFree
    /\ \E rawUid \in RawUids, raw \in RawActivities :
        IF rawUid = NoUid
        THEN /\ hpc' = [hpc EXCEPT ![r] = "rejected"]
             /\ response' = [response EXCEPT ![r] = Reply(FALSE, "no uid", 400)]
             /\ UNCHANGED <<uid, last_activity_raw, timestamp, last_activity>>
        ELSE IF raw.kind # "absent" /\ ParseInt(raw) = None
        THEN /\ hpc' = [hpc EXCEPT ![r] = "rejected"]
             /\ uid' = [uid EXCEPT ![r] = rawUid]
             /\ last_activity_raw' = [last_activity_raw EXCEPT ![r] = raw]
             /\ response' =
                    [response EXCEPT ![r] = Reply(FALSE, "invalid last_activity", 400)]
             /\ UNCHANGED <<timestamp, last_activity>>
        ELSE /\ hpc' = [hpc EXCEPT ![r] = "call"]
             /\ uid' = [uid EXCEPT ![r] = rawUid]
             /\ last_activity_raw' = [last_activity_raw EXCEPT ![r] = raw]
             /\ last_activity' =
                    [last_activity EXCEPT ![r] =
                        IF raw.kind = "absent" THEN None ELSE ParseInt(raw)]
             /\ timestamp' = [timestamp EXCEPT ![r] = clock]
             /\ UNCHANGED response
    /\ UNCHANGED <<clock, presence, lock, applied, subVars>>

\* faulty variant of LockFree: the registry is accessed without the lock
LockAlwaysFree(p) == TRUE

\* Lock.acquire() succeeds for context p
LockFree(p) == lock = NoHolder

\* _update_presence, line 44: with _lock, enter
UpdAcquire(r) ==
    /\ hpc[r] = "call"
    /\ LockFree(r)
    /\ lock' = r
    /\ hpc' = [hpc EXCEPT ![r] = "locked"]
    /\ UNCHANGED <<clock, presence, applied, uid, last_activity_raw, timestamp,
                   last_activity, response, subVars>>

\* faulty variant of ResolvedActivity: a missing activity is stored as 0
ResolvedActivityZero(ts, activity) == IF activity = None THEN 0 ELSE activity[1]

\* _update_presence, lines 46-49
ResolvedActivity(ts, activity) == IF activity = None THEN ts ELSE activity[1]

\* faulty variant of NewPresence: last_activity is merged with the stored
\* entry (the maximum is kept) instead of being overwritten
NewPresenceMerge(u, ts, activity) ==
    LET new == IF activity = None THEN ts ELSE activity[1]
        old == IF u \in Keys(presence) THEN Get(presence, u).last_activity ELSE new
    IN  Presence(u, ts, IF old > new THEN old ELSE new)

\* faulty variant of NewPresence: a stored last_seen never goes back (the
\* newest timestamp is kept, whatever the order of the calls)
NewPresenceNewest(u, ts, activity) ==
    LET old == IF u \in Keys(presence) THEN Get(presence, u).last_seen ELSE ts
    IN  Presence(u, IF old > ts THEN old ELSE ts, ResolvedActivity(ts, activity))

\* _update_presence, line 51: the entry stored for a heartbeat
NewPresence(u, ts, activity) == Presence(u, ts, ResolvedActivity(ts, activity))

\* _update_presence, lines 45-51, and with _lock, exit; hit, line 130
UpdWrite(r) ==
    /\ hpc[r] = "locked"
    /\ presence' = SetItem(presence, NewPresence(uid[r], timestamp[r], last_activity[r]))
    /\ applied' = [applied EXCEPT ![uid[r]] =
                      Some([timestamp |-> timestamp[r],
                            last_activity |-> last_activity[r]])]
    /\ lock' = NoHolder
    /\ hpc' = [hpc EXCEPT ![r] = "done"]
    /\ response' = [response EXCEPT ![r] = Reply(TRUE, "", 200)]
    /\ uid' = [uid EXCEPT ![r] = NoUid]
    /\ last_activity_raw' = [last_activity_raw EXCEPT ![r] = NoRaw]
    /\ timestamp' = [timestamp EXCEPT ![r] = 0]
    /\ last_activity' = [last_activity EXCEPT ![r] = None]
    /\ quiet' = [s \in Subs |-> FALSE]
    /\ UNCHANGED <<clock, spc, snapVars, wake, streamVars>>

\* hit, lines 116, 126, 130: the response is sent and the request is over
HitRespond(r) ==
    /\ hpc[r] \in {"done", "rejected"}
    /\ hpc' = [hpc EXCEPT ![r] = "closed"]
    /\ response' = [response EXCEPT ![r] = None]
    /\ uid' = [uid EXCEPT ![r] = NoUid]
    /\ last_activity_raw' = [last_activity_raw EXCEPT ![r] = NoRaw]
    /\ UNCHANGED <<clock, presence, lock, applied, timestamp, last_activity, subVars>>

\* ----------------------------------------------------------- GET /sse/online

last_seen_cutoff(current_ts) == current_ts - LAST_SEEN_TTL_SECONDS
idle_cutoff(current_ts) == current_ts - IDLE_THRESHOLD_SECONDS

\* faulty variant of IsStale: an entry exactly TTL seconds old is stale
IsStaleAtTTL(data, current_ts) ==
    data.last_seen <= current_ts - LAST_SEEN_TTL_SECONDS

\* _prune_and_snapshot, line 63
IsStale(data, current_ts) == data.last_seen < last_seen_cutoff(current_ts)
\* faulty variant of IsActive: the split is made on last_seen
IsActiveBySeen(data, current_ts) ==
    data.last_seen >= current_ts - IDLE_THRESHOLD_SECONDS

\* faulty variant of IsActive: activity exactly at the idle cutoff is idle
IsActiveStrict(data, current_ts) ==
    data.last_activity > current_ts - IDLE_THRESHOLD_SECONDS

\* _prune_and_snapshot, line 67
IsActive(data, current_ts) == data.last_activity >= idle_cutoff(current_ts)

\* the loop of lines 62-70 from element i on
RECURSIVE ScanFrom(_, _, _, _)
ScanFrom(its, i, current_ts, acc) ==
    IF i > Len(its) THEN acc
    ELSE IF IsStale(its[i], current_ts)
    THEN ScanFrom(its, i + 1, current_ts,
                  [acc EXCEPT !.stale = Append(@, its[i].uid)])
    ELSE IF IsActive(its[i], current_ts)
    THEN ScanFrom(its, i + 1, current_ts,
                  [acc EXCEPT !.active = Append(@, its[i].uid)])
    ELSE ScanFrom(its, i + 1, current_ts,
                  [acc EXCEPT !.idle = Append(@, its[i].uid)])

Scan(its, current_ts) ==
    ScanFrom(its, 1, current_ts, [stale |-> <<>>, active |-> <<>>, idle |-> <<>>])

\* faulty variant of PopAll: the stale entries are left in the registry
PopNone(d, us) == d

\* faulty variant of PopAll: only the first stale entry is removed
PopFirst(d, us) == IF us = <<>> THEN d ELSE Pop(d, Head(us))

\* the loop of lines 72-73
RECURSIVE PopAll(_, _)
PopAll(d, us) == IF us = <<>> THEN d ELSE PopAll(Pop(d, Head(us)), Tail(us))

\* event_stream, line 151
SubNow(s) ==
    /\ spc[s] = "tick"
    /\ WorkerFree
    /\ now_ts' = [now_ts EXCEPT ![s] = clock]
    /\ spc' = [spc EXCEPT ![s] = "call"]
    /\ UNCHANGED <<clock, presence, lock, applied, hitVars, items, stale, active,
                   idle, wake, streamVars, quiet>>

\* _prune_and_snapshot, lines 57-70: with _lock, enter; the scan
SnapScan(s) ==
    /\ spc[s] = "call"
    /\ LockFree(s)
    /\ lock' = s
    /\ items' = [items EXCEPT ![s] = presence]
    /\ LET res == Scan(presence, now_ts[s]) IN
        /\ stale' = [stale EXCEPT ![s] = res.stale]
        /\ active' = [active EXCEPT ![s] = res.active]
        /\ idle' = [idle EXCEPT ![s] = res.idle]
    /\ spc' = [spc EXCEPT ![s] = "scanned"]
    /\ UNCHANGED <<clock, presence, applied, hitVars, now_ts, wake, streamVars, quiet>>

\* _prune_and_snapshot, lines 72-73
SnapEvict(s) ==
    /\ spc[s] = "scanned"
    /\ presence' = PopAll(presence, stale[s])
    /\ spc' = [spc EXCEPT ![s] = "evicted"]
    /\ UNCHANGED <<clock, lock, applied, hitVars, snapVars, wake, streamVars, quiet>>

\* _prune_and_snapshot, lines 73-77: with _lock, exit; sort; return
SnapReturn(s) ==
    /\ spc[s] = "evicted"
    /\ lock' = NoHolder
    /\ active' = [active EXCEPT ![s] = Sort(active[s])]
    /\ idle' = [idle EXCEPT ![s] = Sort(idle[s])]
    /\ items' = [items EXCEPT ![s] = <<>>]
    /\ stale' = [stale EXCEPT ![s] = <<>>]
    /\ spc' = [spc EXCEPT ![s] = "returned"]
    /\ quiet' = [quiet EXCEPT ![s] = TRUE]
    /\ UNCHANGED <<clock, presence, applied, hitVars, now_ts, wake, streamVars>>

\* the "error" key of a payload (line 173): absent in a normal event
ErrorField(isError) == IF isError THEN Some("internal_error") ELSE None

\* faulty variant of Payload: online_total counts the active list only
PayloadActiveOnly(ts, a, i, isError) ==
    [ts |-> ts, online_total |-> Len(a), active_total |-> Len(a),
     idle_total |-> Len(i), active_uids |-> a, idle_uids |-> i,
     error |-> ErrorField(isError)]

\* payload, lines 153-160, and error_payload, lines 166-174
Payload(ts, a, i, isError) ==
    [ts |-> ts, online_total |-> Len(a) + Len(i), active_total |-> Len(a),
     idle_total |-> Len(i), active_uids |-> a, idle_uids |-> i,
     error |-> ErrorField(isError)]

\* event_stream, lines 153-161 and 166-175: the payload is built and yielded
SubEmit(s) ==
    /\ spc[s] = "returned"
    /\ event' = [event EXCEPT ![s] =
                    Some(Payload(now_ts[s], active[s], idle[s], failed[s]))]
    /\ errors' = [errors EXCEPT ![s] = IF failed[s] THEN @ + 1 ELSE @]
    /\ spc' = [spc EXCEPT ![s] = "yielded"]
    /\ active' = [active EXCEPT ![s] = <<>>]
    /\ idle' = [idle EXCEPT ![s] = <<>>]
    /\ now_ts' = [now_ts EXCEPT ![s] = 0]
    /\ quiet' = [quiet EXCEPT ![s] = FALSE]
    /\ UNCHANGED <<clock, presence, lock, applied, hitVars, items, stale, wake,
                   failed, connected>>

\* event_stream, line 162: the event was written downstream, the generator
\* is resumed and sleeps
SubSleep(s) ==
    /\ spc[s] = "yielded"
    /\ ~failed[s]
    /\ event' = [event EXCEPT ![s] = None]
    /\ spc' = [spc EXCEPT ![s] = "sleep"]
    /\ wake' = [wake EXCEPT ![s] = clock + SSE_BROADCAST_INTERVAL_SECONDS]
    /\ UNCHANGED <<clock, presence, lock, applied, hitVars, snapVars, failed,
                   connected, errors, quiet>>

\* faulty variant of AfterErrorEvent: the loop goes on after the error event
AfterErrorEventContinue == "except"

\* event_stream, line 177: return
AfterErrorEvent == "finished"

\* event_stream, line 177: the error event was written downstream, the
\* generator is resumed and returns
SubReturn(s) ==
    /\ spc[s] = "yielded"
    /\ failed[s]
    /\ event' = [event EXCEPT ![s] = None]
    /\ spc' = [spc EXCEPT ![s] = AfterErrorEvent]
    /\ failed' = [failed EXCEPT ![s] = AfterErrorEvent # "finished"]
    /\ UNCHANGED <<clock, presence, lock, applied, hitVars, snapVars, wake,
                   connected, errors, quiet>>

\* faulty variant of CloseGenerator: the except clause of line 163 catches
\* the exception that close() raises
CloseGeneratorCaught(pcs, s) == [pcs EXCEPT ![s] = "except"]

\* faulty variant of CloseGenerator: closing one stream ends every loop
CloseGeneratorAll(pcs, s) == [t \in Subs |-> "disconnected"]

\* close() of the generator of subscriber s, suspended at a yield (lines 161,
\* 175): GeneratorExit is no Exception, line 163 does not catch it
CloseGenerator(pcs, s) == [pcs EXCEPT ![s] = "disconnected"]

\* the write of the yielded event fails, the connection is closed: the
\* server closes the generator
SubClose(s) ==
    /\ spc[s] = "yielded"
    /\ connected' = [connected EXCEPT ![s] = FALSE]
    /\ event' = [event EXCEPT ![s] = None]
    /\ spc' = CloseGenerator(spc, s)
    /\ failed' = [failed EXCEPT ![s] = spc'[s] = "except"]
    /\ UNCHANGED <<clock, presence, lock, applied, hitVars, snapVars, wake,
                   errors, quiet>>

\* faulty variant of ReleaseOnRaise: the lock stays with the context
KeepOnRaise(l, s) == l

\* with _lock, exit by an exception (line 57): the lock is released
ReleaseOnRaise(l, s) == IF l = s THEN NoHolder ELSE l

\* event_stream, line 163: a statement of lines 151-161 raises an Exception;
\* the locals are assigned again (lines 165-166) before they are read
SubRaise(s) ==
    /\ spc[s] \in {"call", "scanned", "evicted", "returned"}
    /\ ~failed[s]
    /\ failed' = [failed EXCEPT ![s] = TRUE]
    /\ lock' = ReleaseOnRaise(lock, s)
    /\ spc' = [spc EXCEPT ![s] = "except"]
    /\ now_ts' = [now_ts EXCEPT ![s] = 0]
    /\ items' = [items EXCEPT ![s] = <<>>]
    /\ stale' = [stale EXCEPT ![s] = <<>>]
    /\ active' = [active EXCEPT ![s] = <<>>]
    /\ idle' = [idle EXCEPT ![s] = <<>>]
    /\ quiet' = [quiet EXCEPT ![s] = FALSE]
    /\ UNCHANGED <<clock, presence, applied, hitVars, wake, event, connected, errors>>

\* event_stream, line 165
SubExceptNow(s) ==
    /\ spc[s] = "except"
    /\ now_ts' = [now_ts EXCEPT ![s] = clock]
    /\ spc' = [spc EXCEPT ![s] = "call"]
    /\ UNCHANGED <<clock, presence, lock, applied, hitVars, items, stale, active,
                   idle, wake, streamVars, quiet>>

\* ------------------------------------------------------------ specification

\* the server starts at the first instant of one of the schedules
Init ==
    /\ clock \in {ClockStart + d : d \in {0, 100}}
    /\ presence = <<>>
    /\ lock = NoHolder
    /\ applied = [u \in Uids |-> None]
    /\ hpc = [r \in Requests |-> "start"]
    /\ uid = [r \in Requests |-> NoUid]
    /\ last_activity_raw = [r \in Requests |-> NoRaw]
    /\ timestamp = [r \in Requests |-> 0]
    /\ last_activity = [r \in Requests |-> None]
    /\ response = [r \in Requests |-> None]
    /\ spc = [s \in Subs |-> "tick"]
    /\ now_ts = [s \in Subs |-> 0]
    /\ items = [s \in Subs |-> <<>>]
    /\ stale = [s \in Subs |-> <<>>]
    /\ active = [s \in Subs |-> <<>>]
    /\ idle = [s \in Subs |-> <<>>]
    /\ wake = [s \in Subs |-> 0]
    /\ failed = [s \in Subs |-> FALSE]
    /\ event = [s \in Subs |-> None]
    /\ connected = [s \in Subs |-> TRUE]
    /\ errors = [s \in Subs |-> 0]
    /\ quiet = [s \in Subs |-> FALSE]

Next ==
    \/ Tick
    \/ \E r \in Requests : HitReceive(r)
    \/ \E r \in Requests : UpdAcquire(r)
    \/ \E r \in Requests : UpdWrite(r)
    \/ \E r \in Requests : HitRespond(r)
    \/ \E s \in Subs : SubNow(s)
    \/ \E s \in Subs : SnapScan(s)
    \/ \E s \in Subs : SnapEvict(s)
    \/ \E s \in Subs : SnapReturn(s)
    \/ \E s \in Subs : SubEmit(s)
    \/ \E s \in Subs : SubSleep(s)
    \/ \E s \in Subs : SubReturn(s)
    \/ \E s \in Subs : SubClose(s)
    \/ \E s \in Subs : SubRaise(s)
    \/ \E s \in Subs : SubExceptNow(s)

Spec == Init /\ [][Next]_vars

\* Scheduling: time passes; a context that runs a handler keeps running; a
\* context blocked on the lock gets it once it is released, because the
\* context that released it suspends or ends before it asks for it again;
\* the server ends the write of a yielded event, by success or by failure.
\* That requests arrive, that a loop fails and that a connection closes is
\* left to the environment.
Fairness ==
    /\ WF_vars(Tick)
    /\ \A r \in Requests :
        /\ SF_vars(UpdAcquire(r))
        /\ WF_vars(UpdWrite(r))
        /\ WF_vars(HitRespond(r))
    /\ \A s \in Subs :
        /\ WF_vars(SubNow(s))
        /\ WF_vars(SubExceptNow(s))
        /\ SF_vars(SnapScan(s))
        /\ WF_vars(SnapEvict(s))
        /\ WF_vars(SnapReturn(s))
        /\ WF_vars(SubEmit(s))
        /\ WF_vars(SubSleep(s) \/ SubReturn(s) \/ SubClose(s))

\* The behaviours with fairness are those of a server that starts at the
\* first instant of the boundary schedule and receives one request.
LiveRequests == {1}
LiveInit == Init /\ clock = ClockStart
LiveNext ==
    \/ Tick
    \/ \E r \in LiveRequests : HitReceive(r)
    \/ \E r \in LiveRequests : UpdAcquire(r)
    \/ \E r \in LiveRequests : UpdWrite(r)
    \/ \E r \in LiveRequests : HitRespond(r)
    \/ \E s \in Subs : SubNow(s)
    \/ \E s \in Subs : SnapScan(s)
    \/ \E s \in Subs : SnapEvict(s)
    \/ \E s \in Subs : SnapReturn(s)
    \/ \E s \in Subs : SubEmit(s)
    \/ \E s \in Subs : SubSleep(s)
    \/ \E s \in Subs : SubReturn(s)
    \/ \E s \in Subs : SubClose(s)
    \/ \E s \in Subs : SubRaise(s)
    \/ \E s \in Subs : SubExceptNow(s)

FairSpec == LiveInit /\ [][LiveNext]_vars /\ Fairness

\* ------------------------------------------------------------------ claims

\* the subscribers whose snapshot has scanned the registry and still holds
\* the lock: items is the registry it scanned, stale/active/idle its result
Scanned == {s \in Subs : spc[s] \in {"scanned", "evicted"}}
\* the subscribers whose snapshot has scanned and evicted, lock still held
Evicted == {s \in Subs : spc[s] = "evicted"}
\* the identifiers a snapshot returns
Listed(s) == Range(active[s]) \cup Range(idle[s])

\* C1, as the claim states it: an entry with last_seen = t is returned by
\* snapshot(t + 59) and is not returned by snapshot(t + 60).
C1_EvictedAtSixty ==
    \A s \in Scanned : \A i \in 1..Len(items[s]) :
        /\ now_ts[s] = items[s][i].last_seen + 59 => items[s][i].uid \in Listed(s)
        /\ now_ts[s] = items[s][i].last_seen + 60 => items[s][i].uid \notin Listed(s)

\* C1, amended: an entry with last_seen = t is returned by snapshot(t + 59)
\* and by snapshot(t + 60) and stays in the registry; snapshot(t + 61) does
\* not return it and removes it.
C1_EvictedAfterSixty ==
    \A s \in Scanned : \A i \in 1..Len(items[s]) :
        LET e == items[s][i] IN
        /\ now_ts[s] \in {e.last_seen + 59, e.last_seen + 60} =>
                /\ e.uid \in Listed(s)
                /\ e.uid \notin Range(stale[s])
                /\ s \in Evicted => e \in Range(presence)
        /\ now_ts[s] = e.last_seen + 61 =>
                /\ e.uid \notin Listed(s)
                /\ e.uid \in Range(stale[s])
                /\ s \in Evicted => e.uid \notin Keys(presence)

\* C1: a snapshot taken exactly TTL seconds after an entry's heartbeat has
\* finished its eviction.
C1_Witness ==
    \E s \in Evicted : \E i \in 1..Len(items[s]) :
        now_ts[s] = items[s][i].last_seen + LAST_SEEN_TTL_SECONDS

\* C2: the eviction step of snapshot(now) removes from the registry exactly
\* the entries with last_seen < now - 60 and keeps the others, in order and
\* unchanged; the two lists hold each kept identifier exactly once and no
\* removed one.
C2_EvictsExactlyStale ==
    [][\A s \in Subs :
        (spc[s] = "scanned" /\ spc'[s] = "evicted") =>
            LET kept == SelectSeq(presence,
                            LAMBDA e : e.last_seen >= now_ts[s] - 60)
            IN  /\ presence' = kept
                /\ Listed(s)' = Keys(kept)
                /\ Range(active'[s]) \cap Range(idle'[s]) = {}
                /\ Len(active'[s]) + Len(idle'[s]) = Len(kept)]_vars

\* C2: a snapshot has evicted one entry and kept another.
C2_Witness ==
    \E s \in Evicted :
        /\ stale[s] # <<>>
        /\ Listed(s) # {}
        /\ Len(presence) < Len(items[s])

\* C3, as the claim states it: an entry with last_seen = t and
\* last_activity = t - 100 is stale for snapshot(t + 50): it is in neither
\* list and is removed from the registry.
C3_StaleAfterFifty ==
    \A s \in Scanned : \A i \in 1..Len(items[s]) :
        LET e == items[s][i] IN
        (e.last_activity = e.last_seen - 100 /\ now_ts[s] = e.last_seen + 50) =>
            /\ e.uid \notin Listed(s)
            /\ s \in Evicted => e.uid \notin Keys(presence)

\* C3, amended: an entry with last_seen = t and last_activity = t - 100 is
\* not stale for snapshot(t + 50): it stays in the registry and is returned
\* in the idle list.
C3_IdleAfterFifty ==
    \A s \in Scanned : \A i \in 1..Len(items[s]) :
        LET e == items[s][i] IN
        (e.last_activity = e.last_seen - 100 /\ now_ts[s] = e.last_seen + 50) =>
            /\ e.uid \in Range(idle[s])
            /\ e.uid \notin Range(active[s])
            /\ e.uid \notin Range(stale[s])
            /\ s \in Evicted => e \in Range(presence)

\* C3: snapshot(t + 50) has finished its eviction with such an entry scanned.
C3_Witness ==
    \E s \in Evicted : \E i \in 1..Len(items[s]) :
        /\ items[s][i].last_activity = items[s][i].last_seen - 100
        /\ now_ts[s] = items[s][i].last_seen + 50

\* C4: every entry that survives snapshot(now) is in the active list iff
\* last_activity >= now - 60 and otherwise in the idle list, whatever its
\* last_seen; an entry with last_seen = t, last_activity = t - 100 is idle
\* for snapshot(t + 30).
C4_SplitByActivity ==
    \A s \in Scanned : \A i \in 1..Len(items[s]) :
        LET e == items[s][i] IN
        /\ e.last_seen >= now_ts[s] - 60 =>
                /\ e.uid \in Range(active[s]) <=> e.last_activity >= now_ts[s] - 60
                /\ e.uid \in Range(idle[s]) <=> e.last_activity < now_ts[s] - 60
        /\ (e.last_activity = e.last_seen - 100 /\ now_ts[s] = e.last_seen + 30) =>
                e.uid \in Range(idle[s])

\* C4: snapshot(t + 30) returns an entry with last_seen = t and
\* last_activity = t - 100 as idle, next to an active entry.
C4_Witness ==
    \E s \in Evicted :
        /\ \E i \in 1..Len(items[s]) :
            /\ items[s][i].last_activity = items[s][i].last_seen - 100
            /\ now_ts[s] = items[s][i].last_seen + 30
            /\ items[s][i].uid \in Range(idle[s])
        /\ active[s] # <<>>

\* the entry that _update_presence stores for the heartbeat h of identifier u
EntryOf(u, h) ==
    [uid |-> u, last_seen |-> h.timestamp,
     last_activity |-> IF h.last_activity = None THEN h.timestamp
                       ELSE h.last_activity[1]]

\* C5: after any sequence of heartbeats, every entry of the registry is
\* (now, reported_activity) of the heartbeat applied last for its identifier,
\* or (now, now) when that heartbeat reported no activity; it is not merged
\* with what was stored before.
C5_Overwrite ==
    \A i \in 1..Len(presence) :
        /\ applied[presence[i].uid] # None
        /\ presence[i] = EntryOf(presence[i].uid, applied[presence[i].uid][1])

\* C5: a snapshot returned an identifier as active, and the heartbeat
\* applied since (same last_seen as the snapshot's time) has stored an
\* activity that this snapshot would have classified idle: the stored
\* last_activity went down.
C5_Witness ==
    \E s \in Subs : \E i \in 1..Len(presence) :
        /\ spc[s] = "returned"
        /\ presence[i].uid \in Range(active[s])
        /\ presence[i].last_seen = now_ts[s]
        /\ presence[i].last_activity < now_ts[s] - IDLE_THRESHOLD_SECONDS

\* C6: when snapshot(t) scans the entry of an identifier whose last applied
\* heartbeat came at t without reported activity, it returns the identifier
\* in the active list and not in the idle list.
C6_NoActivityIsActive ==
    \A s \in Scanned : \A i \in 1..Len(items[s]) :
        LET h == applied[items[s][i].uid] IN
        (h # None /\ h[1].last_activity = None /\ h[1].timestamp = now_ts[s]) =>
            /\ items[s][i].uid \in Range(active[s])
            /\ items[s][i].uid \notin Range(idle[s])
            /\ items[s][i].uid \notin Range(stale[s])

\* C6: snapshot(t) has scanned the entry of a heartbeat applied at t without
\* reported activity.
C6_Witness ==
    \E s \in Evicted : \E i \in 1..Len(items[s]) :
        LET h == applied[items[s][i].uid] IN
        /\ h # None
        /\ h[1].last_activity = None
        /\ h[1].timestamp = now_ts[s]
        /\ items[s][i].uid \in Range(active[s])

\* the uids of the entries of d that satisfy P, in the order of d
UidsWhere(d, P(_)) ==
    LET sel == SelectSeq(d, P) IN [i \in 1..Len(sel) |-> sel[i].uid]

\* C7: while a snapshot is in its critical section, every entry it scanned
\* is the (last_seen, last_activity) pair of one heartbeat, the one applied
\* last for the identifier; its three lists are the classification of the
\* registry as it was at the instant of the scan; and the registry is that
\* same registry (before the eviction) or that registry without the stale
\* entries (after it): no heartbeat takes effect in between.
C7_SnapshotAtomic ==
    \A s \in Scanned :
        LET now == now_ts[s]
            Old(e) == e.last_seen < now - 60
            Act(e) == ~Old(e) /\ e.last_activity >= now - 60
            Idl(e) == ~Old(e) /\ e.last_activity < now - 60
            Kept(e) == ~Old(e)
        IN  /\ lock = s
            /\ \A r \in Requests : hpc[r] # "locked"
            /\ \A i \in 1..Len(items[s]) :
                    /\ applied[items[s][i].uid] # None
                    /\ items[s][i] =
                            EntryOf(items[s][i].uid, applied[items[s][i].uid][1])
            /\ stale[s] = UidsWhere(items[s], Old)
            /\ active[s] = UidsWhere(items[s], Act)
            /\ idle[s] = UidsWhere(items[s], Idl)
            /\ presence = IF spc[s] = "scanned" THEN items[s]
                          ELSE SelectSeq(items[s], Kept)

\* C7: a heartbeat for a scanned identifier has read its timestamp and
\* waits for the lock while the snapshot is between its scan and its
\* eviction.
C7_Witness ==
    \E s \in Subs : \E r \in Requests :
        /\ spc[s] = "scanned"
        /\ hpc[r] = "call"
        /\ uid[r] \in Keys(items[s])

\* C8, as the claim states it: when snapshot(now) has finished its critical
\* section, every identifier whose last applied heartbeat has
\* timestamp >= now - 60 is in the registry with that heartbeat's values.
C8_RecentAlwaysPresent ==
    \A s \in Evicted : \A u \in Uids :
        (applied[u] # None /\ applied[u][1].timestamp >= now_ts[s] - 60) =>
            /\ u \in Keys(presence)
            /\ Get(presence, u) = EntryOf(u, applied[u][1])

\* C8, amended: when snapshot(now) has finished its critical section, every
\* identifier that was in the registry when the snapshot scanned it and
\* whose last applied heartbeat has timestamp >= now - 60 is still in the
\* registry with that heartbeat's values; the snapshot removed no entry
\* that a heartbeat refreshed after the staleness test.
C8_ScannedRecentKept ==
    \A s \in Evicted : \A u \in Keys(items[s]) :
        (applied[u] # None /\ applied[u][1].timestamp >= now_ts[s] - 60) =>
            /\ u \in Keys(presence)
            /\ u \notin Range(stale[s])
            /\ Get(presence, u) = EntryOf(u, applied[u][1])

\* C8: a snapshot has evicted an entry while a heartbeat that refreshes the
\* same identifier, with a timestamp inside the TTL, waits for the lock.
C8_Witness ==
    \E s \in Evicted : \E r \in Requests :
        /\ hpc[r] = "call"
        /\ uid[r] \in Range(stale[s])
        /\ timestamp[r] >= now_ts[s] - LAST_SEEN_TTL_SECONDS

\* s is strictly ascending
StrictlyAscending(s) == \A i \in 1..(Len(s) - 1) : s[i] < s[i + 1]

\* C9: the active list and the idle list that snapshot returns are each
\* strictly ascending (so without duplicates) and share no identifier.
C9_SortedDisjoint ==
    \A s \in Subs :
        spc[s] = "returned" =>
            /\ StrictlyAscending(active[s])
            /\ StrictlyAscending(idle[s])
            /\ Range(active[s]) \cap Range(idle[s]) = {}

\* C9: a snapshot has returned two identifiers in one list while the
\* registry holds them in descending order.
C9_Witness ==
    \E s \in Subs :
        /\ spc[s] = "returned"
        /\ Len(active[s]) >= 2
        /\ Len(presence) >= 2
        /\ presence[1].uid > presence[2].uid
        /\ Range(active[s]) = Keys(presence)

\* C10: the step that applies a heartbeat for id removes no entry and
\* leaves the entry of every other identifier as it was, stale or not; a
\* step that removes an entry is the eviction step of a snapshot.
C10_HeartbeatFrame ==
    [][/\ \A r \in Requests :
            (hpc[r] = "locked" /\ hpc'[r] = "done") =>
                /\ Keys(presence') = Keys(presence) \cup {uid[r]}
                /\ \A u \in Keys(presence) \ {uid[r]} :
                        Get(presence', u) = Get(presence, u)
       /\ ~(Keys(presence) \subseteq Keys(presence')) =>
            \E s \in Subs : spc[s] = "scanned" /\ spc'[s] = "evicted"]_vars

\* C10: a heartbeat has just been applied and the registry still holds the
\* entry of another identifier that is older than the TTL.
C10_Witness ==
    \E r \in Requests : \E i, j \in 1..Len(presence) :
        /\ hpc[r] = "done"
        /\ presence[i].last_seen = clock
        /\ presence[j].last_seen < clock - LAST_SEEN_TTL_SECONDS

\* C11: in the step in which the emission of a subscriber loop fails (its
\* downstream connection is closed) the loop ends without yielding anything
\* and without touching the registry or the lock; from then on the loop
\* stays ended: it yields no event, normal or error-flagged, and makes no
\* snapshot call (it never takes the registry lock again).
C11_SilentAfterClose ==
    [][\A s \in Subs :
        /\ (connected[s] /\ ~connected'[s]) =>
                /\ spc[s] = "yielded"
                /\ spc'[s] = "disconnected"
                /\ event'[s] = None
                /\ errors'[s] = errors[s]
                /\ presence' = presence
                /\ lock' = lock
        /\ ~connected[s] =>
                /\ ~connected'[s]
                /\ spc'[s] = "disconnected"
                /\ event'[s] = None
                /\ errors'[s] = errors[s]
                /\ now_ts'[s] = now_ts[s]
                /\ lock' # s]_vars

\* C11: the connection of one loop was closed at a normal event, the loop
\* has ended without an error-flagged event, and since then the clock has
\* moved and the other loop has yielded an event.
C11_Witness ==
    \E s \in Subs : \E t \in Subs \ {s} :
        /\ ~connected[s]
        /\ spc[s] = "disconnected"
        /\ errors[s] = 0
        /\ event[t] # None
        /\ event[t][1].ts > ClockStart
        /\ presence # <<>>

C13_LoopsIsolated ==
    [][\A s \in Subs : \A t \in Subs \ {s} :
        /\ (/\ spc'[s] = "returned" /\ spc'[t] = "returned"
            /\ quiet'[s] /\ quiet'[t]
            /\ now_ts'[s] = now_ts'[t]) =>
                /\ active'[s] = active'[t]
                /\ idle'[s] = idle'[t]
        /\ (connected[s] /\ ~connected'[s]) =>
                /\ presence' = presence
                /\ applied' = applied
                /\ lock' = lock
                /\ spc'[t] = spc[t]
                /\ now_ts'[t] = now_ts[t]
                /\ active'[t] = active[t]
                /\ idle'[t] = idle[t]
                /\ event'[t] = event[t]
                /\ wake'[t] = wake[t]
                /\ failed'[t] = failed[t]
                /\ errors'[t] = errors[t]
                /\ connected'[t] = connected[t]
        /\ ~connected'[s] =>
                /\ lock' # s
                /\ s \notin Busy']_vars

\* C13: the two loops hold the lists of snapshots taken with the same time,
\* no heartbeat applied in between, and the lists are not empty.
C13_Witness ==
    \E s \in Subs : \E t \in Subs \ {s} :
        /\ spc[s] = "returned" /\ spc[t] = "returned"
        /\ quiet[s] /\ quiet[t]
        /\ now_ts[s] = now_ts[t]
        /\ active[s] # <<>>

\* C14: every event a subscriber loop yields, normal or error-flagged, has
\* active_total = Len(active_uids), idle_total = Len(idle_uids) and
\* online_total = active_total + idle_total; its lists are the lists the
\* snapshot call returned and its ts is the time that was passed to that
\* call: the time the scan classified the registry with, unchanged from the
\* scan to the yield.
C14_EventTotals ==
    [][\A s \in Subs :
        /\ event'[s] # None =>
                LET e == event'[s][1] IN
                /\ e.active_total = Len(e.active_uids)
                /\ e.idle_total = Len(e.idle_uids)
                /\ e.online_total = e.active_total + e.idle_total
        /\ (event[s] = None /\ event'[s] # None) =>
                /\ spc[s] = "returned"
                /\ event'[s][1].ts = now_ts[s]
                /\ event'[s][1].active_uids = active[s]
                /\ event'[s][1].idle_uids = idle[s]
        /\ (spc[s] = "call" /\ spc'[s] = "scanned") =>
                /\ now_ts'[s] = now_ts[s]
                /\ \A i \in 1..Len(presence) :
                    LET e == presence[i] IN
                    /\ e.uid \in Range(active'[s]) <=>
                            (e.last_seen >= now_ts[s] - 60 /\ e.last_activity >= now_ts[s] - 60)
                    /\ e.uid \in Range(idle'[s]) <=>
                            (e.last_seen >= now_ts[s] - 60 /\ e.last_activity < now_ts[s] - 60)
        /\ (spc[s] \in {"scanned", "evicted"} /\ spc'[s] \in {"evicted", "returned"}) =>
                /\ now_ts'[s] = now_ts[s]
                /\ Range(active'[s]) = Range(active[s])
                /\ Range(idle'[s]) = Range(idle[s])]_vars

\* C14: a loop yields a normal event with a non-empty active list and a
\* non-empty idle list, taken after the start.
C14_Witness ==
    \E s \in Subs :
        /\ event[s] # None
        /\ event[s][1].active_uids # <<>>
        /\ event[s][1].idle_uids # <<>>
        /\ event[s][1].online_total = 2
        /\ event[s][1].error = None
        /\ event[s][1].ts > ClockStart

\* the payload of request r is malformed: its uid is absent or empty, or its
\* last_activity is present and no integer
Malformed(u, raw) == u = NoUid \/ raw.kind = "badstr"

\* C15: a request whose uid is absent or empty, or whose last_activity is
\* present and no integer, is answered with ok = false and status 400 and
\* never reaches _update_presence: only a request with a non-empty uid and
\* a last_activity that is absent or an integer calls it, with that integer.
\* Neither the step that rejects a request nor the step that sends the
\* answer changes the registry, and a rejected request never takes the
\* registry lock.  A request is answered ok = true only by the step that
\* applies its heartbeat.
C15_RejectedNeverApplied ==
    [][\A r \in Requests :
        /\ (hpc[r] = "start" /\ hpc'[r] # "start") =>
                /\ hpc'[r] \in {"call", "rejected"}
                /\ hpc'[r] = "rejected" <=> Malformed(uid'[r], last_activity_raw'[r])
                /\ presence' = presence
                /\ applied' = applied
                /\ lock' = lock
        /\ hpc'[r] = "rejected" =>
                /\ response'[r] # None
                /\ ~response'[r][1].ok
                /\ response'[r][1].status = 400
                /\ response'[r][1].error =
                        (IF uid'[r] = NoUid THEN "no uid" ELSE "invalid last_activity")
        /\ hpc'[r] \in {"call", "locked"} =>
                /\ uid'[r] \in Uids
                /\ last_activity_raw'[r].kind \in {"absent", "int", "numstr"}
                /\ last_activity'[r] =
                        (IF last_activity_raw'[r].kind = "absent" THEN None
                         ELSE Some(last_activity_raw'[r].val))
        /\ hpc[r] = "rejected" =>
                /\ hpc'[r] \in {"rejected", "closed"}
                /\ lock' # r
                /\ hpc'[r] = "closed" => presence' = presence /\ applied' = applied
        /\ (response'[r] # None /\ response'[r][1].ok) =>
                hpc'[r] = "done" /\ hpc[r] \in {"locked", "done"}]_vars

\* C15: a request with a uid and a last_activity that is no integer has been
\* rejected while the registry holds an entry.
C15_Witness ==
    \E r \in Requests :
        /\ hpc[r] = "rejected"
        /\ uid[r] \in Uids
        /\ last_activity_raw[r].kind = "badstr"
        /\ response[r] = Reply(FALSE, "invalid last_activity", 400)
        /\ presence # <<>>

\* the entry of identifier u is in the registry and older than the TTL
StaleEntry(u) ==
    /\ u \in Keys(presence)
    /\ Get(presence, u).last_seen < clock - LAST_SEEN_TTL_SECONDS

\* the subscriber loops that have ended
Ended == {s \in Subs : spc[s] \in {"disconnected", "finished"}}

\* C16: an entry of the registry whose last_seen is older than the TTL is
\* eventually removed (or refreshed by a later heartbeat): the registry
\* does not keep an identifier that was last seen more than TTL seconds ago.
C16_StaleEventuallyEvicted ==
    \A u \in Uids : StaleEntry(u) ~> ~StaleEntry(u)

\* C16, for the runs in which a subscriber loop keeps running: an entry
\* older than the TTL is eventually removed or refreshed, unless every
\* subscriber loop has ended.
C16_EvictedWhileSubscribed ==
    \A u \in Uids : StaleEntry(u) ~> (~StaleEntry(u) \/ Ended = Subs)

\* the lock is held exactly by a context inside one of the two critical
\* sections: a request between lines 44 and 51, a loop between lines 57 and 73
LockDiscipline ==
    /\ lock \in {NoHolder} \cup Requests \cup Subs
    /\ \A r \in Requests : lock = r <=> hpc[r] = "locked"
    /\ \A s \in Subs : lock = s <=> spc[s] \in {"scanned", "evicted"}

\* C17: the lock is held only by a context that is inside _update_presence
\* or inside the critical section of _prune_and_snapshot: a context that
\* asks for the lock does not hold it, a context that leaves the critical
\* section (by its end or by an exception) has released it, and a loop that
\* builds or yields an event, sleeps, or has ended does not hold it.  Every
\* heartbeat that waits for the lock is eventually applied, and every
\* snapshot call that waits for the lock eventually returns (or its loop
\* fails or ends).
C17_LockProgress ==
    /\ []LockDiscipline
    /\ \A r \in LiveRequests : (hpc[r] = "call") ~> (hpc[r] = "done")
    /\ \A s \in Subs : (spc[s] = "call") ~> (spc[s] \in {"returned", "except"})

\* C17: a loop that failed inside its try block is in its except branch
\* and waits, at its second snapshot call, for the lock that the snapshot
\* of the other loop holds.
C17_Witness ==
    \E s \in Subs : \E t \in Subs \ {s} :
        /\ lock = s
        /\ spc[t] = "call"
        /\ failed[t]
        /\ presence # <<>>

\* C18: the step that applies a heartbeat stores exactly that heartbeat's
\* timestamp as last_seen of its identifier, whether the last_seen stored
\* before is smaller, equal or greater: the entry is that of the heartbeat
\* applied last, in the order of the critical sections and not of the
\* timestamps, which are read before the lock is taken.
C18_LastWriteWins ==
    [][\A r \in Requests :
        (hpc[r] = "locked" /\ hpc'[r] = "done") =>
            /\ uid[r] \in Keys(presence')
            /\ Get(presence', uid[r]).last_seen = timestamp[r]
            /\ Get(presence', uid[r]) =
                    EntryOf(uid[r], [timestamp |-> timestamp[r],
                                     last_activity |-> last_activity[r]])
            /\ timestamp[r] <= clock]_vars

\* C18: a snapshot has returned an identifier, so its entry was then at most
\* TTL seconds older than the snapshot's time, and the entry now stored for
\* it is older than that: a heartbeat with an older timestamp was applied
\* after one with a newer timestamp and the stored last_seen went down.
C18_Witness ==
    \E s \in Subs : \E i \in 1..Len(presence) :
        /\ spc[s] = "returned"
        /\ presence[i].uid \in Listed(s)
        /\ presence[i].last_seen < now_ts[s] - LAST_SEEN_TTL_SECONDS

\* C19: when snapshot(now) has finished its critical section and another
\* snapshot(now), with the same now, has returned before it with no
\* heartbeat applied since, the second call has found nothing stale and has
\* left the registry as it found it, and its lists, once sorted, are the
\* lists the first call returned.
C19_SnapshotIdempotent ==
    \A s \in Evicted : \A t \in Subs \ {s} :
        (spc[t] = "returned" /\ quiet[t] /\ now_ts[t] = now_ts[s]) =>
            /\ stale[s] = <<>>
            /\ presence = items[s]
            /\ Sort(active[s]) = active[t]
            /\ Sort(idle[s]) = idle[t]

\* C19: the second of two such calls has finished its critical section; the
\* lists are not empty and an identifier that was applied is no longer in
\* the registry (an eviction has happened before).
C19_Witness ==
    \E s \in Evicted : \E t \in Subs \ {s} : \E u \in Uids :
        /\ spc[t] = "returned"
        /\ quiet[t]
        /\ now_ts[t] = now_ts[s]
        /\ Listed(t) # {}
        /\ applied[u] # None
        /\ u \notin Keys(presence)

\* C20: when snapshot(now) has finished its critical section, the
\* identifiers of the registry are exactly those of its active and idle
\* lists, every entry of the registry has last_seen >= now - 60, and the
\* registry is the scanned registry without the stale entries: the entries
\* that remain are the scanned ones, unchanged and in the same order.
C20_SnapshotFrame ==
    \A s \in Evicted :
        /\ Keys(presence) = Listed(s)
        /\ Len(presence) = Len(active[s]) + Len(idle[s])
        /\ \A i \in 1..Len(presence) :
                /\ presence[i].last_seen >= now_ts[s] - 60
                /\ presence[i] \in Range(items[s])
        /\ presence = SelectSeq(items[s], LAMBDA e : e.uid \in Listed(s))
        /\ Keys(items[s]) \ Keys(presence) = Range(stale[s])

\* C20: a snapshot has removed a stale entry and kept an entry whose
\* last_activity differs from its last_seen.
C20_Witness ==
    \E s \in Evicted : \E i \in 1..Len(presence) :
        /\ stale[s] # <<>>
        /\ presence[i].last_activity < presence[i].last_seen

====
